---- MODULE Spec2Model ----
(***************************************************************************)
(* Model of the Roguelike turn scheduler (src/src/main.rs), the shared     *)
(* reachability pass of the map builders (src/src/map_builder/common.rs)   *)
(* and the save/load utility (src/src/save_load_util.rs).                  *)
(***************************************************************************)
EXTENDS Integers, Sequences, FiniteSets, TLC

(***************************************************************************)
(* Bounds of the model.                                                    *)
(***************************************************************************)
\* width and height of the maps handed to cull_and_set_exit
MapW == 4
MapH == 2
\* largest entity id the world ever allocates (entity ids are never reused)
MaxId == 3
\* most entities one spawn plan places on a new map
MaxSpawn == 1
\* deepest level the model descends to
MaxDepth == 2
\* entity ids of the arbitrary worlds handed to goto_next_level
MaxWorldEnt == 3
\* the hp and max_hp handed to the heal of goto_next_level: -MaxHp .. MaxHp
MaxHp == 4

(***************************************************************************)
(* Program constants.                                                      *)
(***************************************************************************)
\* common.rs:4  const MAX_STEPS: f32 = 200.0
MAX_STEPS == 200
\* f32::MAX, the value rltk's DijkstraMap keeps for a tile it never reached
\* (common.rs:69); any number above every distance below MAX_STEPS stands for it
F32_MAX == 1000000

VARIABLES
    \* ---- reachability pass (common.rs) ----
    tiles,        \* map.tiles: index -> "Wall" | "Floor" | "StairsDown"
    start_idx,    \* the start_idx argument of cull_and_set_exit
    tiles_in,     \* map.tiles as they were when cull_and_set_exit was called
    cull_pc       \* "built" before the call, "culled" after it

cullVars == <<tiles, start_idx, tiles_in, cull_pc>>

VARIABLES
    \* ---- the specs World (State.ecs) ----
    alive,        \* the entities that are alive
    store,        \* component storages: kind -> (entity -> component value)
    player,       \* the Entity resource: the player entity
    player_pos,   \* the Point resource: the player's position
    map_depth,    \* the Map resource's depth
    map_start,    \* the starting position of the builder that made the Map
    tile_content, \* the Map's per-tile occupants: pairs <<tile, entity>>
    log,          \* GameLog.entries
    runstate,     \* the RunState resource
    next_id,      \* the next entity id the allocator hands out
    \* ---- the process and its files ----
    saves_dir,    \* does the directory ./saves exist
    saves_file,   \* content of ./saves/savegame.json, or NoFile
    root_file,    \* content of ./savegame.json, or NoFile
    halted,       \* "running" | "panicked" | "exited"
    \* ---- what the last tick did ----
    tick_from,    \* the RunState the last tick started in
    tick_input,   \* what the collaborator asked in the last tick answered
    systems_run,  \* how many times the last tick called run_systems
    calls,        \* the calls the last tick made, in order
    runstate_writes, \* one entry per write of the RunState resource in the last
                  \* tick: how many calls the tick had made when it wrote
    world_in,     \* the world as it was when the last tick started
    doomed,       \* the monsters the player's pending melee was lethal to when
                  \* the player turn of the current turn cycle started
    \* ---- the save/load round trip ----
    rt_pc         \* "idle" | "start" | "saved" | "loaded"

gameVars == <<alive, store, player, player_pos, map_depth, map_start, tile_content,
              log, runstate, next_id, saves_dir, saves_file, root_file, halted,
              tick_from, tick_input, systems_run, calls, runstate_writes, world_in,
              doomed, rt_pc>>
vars == <<cullVars, gameVars>>

(***************************************************************************)
(* Grid map: index math and 4-directional neighbourhood.                   *)
(***************************************************************************)
NTiles == MapW * MapH
TileIdx == 0 .. (NTiles - 1)

\* idx(x, y) = y * width + x
xy_idx(x, y) == y * MapW + x

\* the exits of a tile: the 4-directional neighbours inside the grid
Exits(i) ==
    LET x == i % MapW
        y == i \div MapW
    IN  { xy_idx(p[1], p[2]) :
            p \in { q \in { <<x - 1, y>>, <<x + 1, y>>, <<x, y - 1>>, <<x, y + 1>> } :
                      /\ q[1] >= 0 /\ q[1] < MapW
                      /\ q[2] >= 0 /\ q[2] < MapH } }

\* is_walkable: Floor or DownStairs
Walkable(t, i) == t[i] \in {"Floor", "StairsDown"}

(***************************************************************************)
(* rltk::DijkstraMap::new(width, height, &[start], map, MAX_STEPS):        *)
(* a uniform-cost (1 per step) distance field from the start tile; walls   *)
(* are impassable; a tile whose distance would reach max_depth is left at  *)
(* f32::MAX.  Built breadth first, one ring of tiles per recursion.        *)
(***************************************************************************)
RECURSIVE DijkstraBuild(_, _, _, _)
DijkstraBuild(t, dmap, frontier, depth) ==
    LET ring == { j \in TileIdx :
                    /\ dmap[j] = F32_MAX
                    /\ Walkable(t, j)
                    /\ \E i \in frontier : j \in Exits(i) }
    IN  IF ring = {} \/ depth + 1 >= MAX_STEPS
        THEN dmap
        ELSE DijkstraBuild(t,
                           [j \in TileIdx |-> IF j \in ring THEN depth + 1 ELSE dmap[j]],
                           ring, depth + 1)

DijkstraMap(t, start) ==
    DijkstraBuild(t, [j \in TileIdx |-> IF j = start THEN 0 ELSE F32_MAX], {start}, 0)

(***************************************************************************)
(* cull_and_set_exit (common.rs:56-82).                                    *)
(***************************************************************************)
\* the loop of lines 66-80, one tile per recursion, in index order:
\* acc.tiles is the map so far, acc.exit the running exit_tile pair
RECURSIVE CullLoop(_, _, _)
CullLoop(dm, i, acc) ==
    IF i >= NTiles THEN acc
    ELSE IF acc.tiles[i] = "Floor"
         THEN IF dm[i] = F32_MAX
              THEN CullLoop(dm, i + 1,
                            [acc EXCEPT !.tiles = [acc.tiles EXCEPT ![i] = "Wall"]])
              ELSE IF dm[i] > acc.exit[2]
                   THEN CullLoop(dm, i + 1, [acc EXCEPT !.exit = <<i, dm[i]>>])
                   ELSE CullLoop(dm, i + 1, acc)
         ELSE CullLoop(dm, i + 1, acc)

\* a cull loop that forgets to wall off the unreached floor tiles
CullLoopNoPrune(dm, i, acc) ==
    LET r == CullLoop(dm, i, acc)
    IN  [r EXCEPT !.tiles = acc.tiles]

CullAndSetExitLoop(dm, i, acc) == CullLoop(dm, i, acc)

\* the map after cull_and_set_exit(map, start)
cull_and_set_exit(t, start) ==
    LET dm == DijkstraMap(t, start)
        r  == CullAndSetExitLoop(dm, 0, [tiles |-> t, exit |-> <<0, 0>>])
    IN  [r.tiles EXCEPT ![r.exit[1]] = "StairsDown"]

(***************************************************************************)
(* The entity world.                                                       *)
(***************************************************************************)
\* a partial function without the keys in S, and with one key set
Without(f, S) == [x \in (DOMAIN f) \ S |-> f[x]]
Put(f, k, v) == [x \in (DOMAIN f) \cup {k} |-> IF x = k THEN v ELSE f[x]]
NoComponents == [x \in {} |-> 0]

\* the component kinds save_game writes, in the order it writes them
\* (save_load_util.rs:57-82)
SaveKinds ==
    << "AreaOfEffect", "BlocksTile", "CombatStats", "Consumable", "DefenseBonus",
       "Equipable", "Equipped", "InBackpack", "InflictsDamage", "Item",
       "MeleeDamageBonus", "Monster", "Name", "Player", "Position",
       "ProvidesHealing", "Ranged", "Renderable", "SerializationHelper",
       "SufferDamage", "Viewshed", "WantsToDropItem", "WantsToMelee",
       "WantsToPickupItem", "WantsToRemoveItem", "WantsToUseItem" >>

\* the component kinds load_game reads, in the order it reads them
\* (save_load_util.rs:114-137)
LoadKinds ==
    << "AreaOfEffect", "BlocksTile", "CombatStats", "Consumable",
       "Equipable", "Equipped", "InBackpack", "InflictsDamage", "Item",
       "Monster", "Name", "Player", "Position",
       "ProvidesHealing", "Ranged", "Renderable", "SerializationHelper",
       "SufferDamage", "Viewshed", "WantsToDropItem", "WantsToMelee",
       "WantsToPickupItem", "WantsToRemoveItem", "WantsToUseItem" >>

\* the component kinds registered in the world (main.rs:424-454) that are saved
Kinds == { SaveKinds[i] : i \in DOMAIN SaveKinds }

EmptyStore == [k \in Kinds |-> NoComponents]

\* RunState values (main.rs:43-58)
RS(tag) == [tag |-> tag, sel |-> "-", range |-> 0, item |-> 0]
MainMenu(sel) == [tag |-> "MainMenu", sel |-> sel, range |-> 0, item |-> 0]
ShowTargeting(range, item) ==
    [tag |-> "ShowTargeting", sel |-> "-", range |-> range, item |-> item]

\* the process state the operations below work on, as one record
State ==
    [ alive |-> alive, store |-> store, player |-> player, player_pos |-> player_pos,
      map_depth |-> map_depth, map_start |-> map_start, tile_content |-> tile_content,
      log |-> log, runstate |-> runstate, next_id |-> next_id,
      saves_dir |-> saves_dir, saves_file |-> saves_file, root_file |-> root_file,
      halted |-> halted, systems_run |-> systems_run, calls |-> calls,
      runstate_writes |-> runstate_writes ]

Has(st, kind, e) == e \in DOMAIN st.store[kind]

\* the tick calls the function or system `name`
Call(st, name) == [st EXCEPT !.calls = Append(@, name)]

\* ecs.insert::<RunState>(rs): the RunState resource is replaced
insert_RunState(st, rs) ==
    [st EXCEPT !.runstate = rs, !.runstate_writes = Append(@, Len(st.calls))]

\* i32 division by two, truncating toward zero, and i32::max
HalfOf(n) == IF n >= 0 THEN n \div 2 ELSE -((-n) \div 2)
i32_max(a, b) == IF a >= b THEN a ELSE b

\* World::create_entity().with(...).build(): a fresh entity with the components cs
create_entity(st, cs) ==
    [st EXCEPT !.alive = @ \cup {st.next_id},
               !.store = [k \in Kinds |->
                            IF k \in DOMAIN cs THEN Put(@[k], st.next_id, cs[k]) ELSE @[k]],
               !.next_id = @ + 1]

\* World::delete_entity: the entity dies and its components go
delete_entity(st, e) ==
    [st EXCEPT !.alive = @ \ {e},
               !.store = [k \in Kinds |-> Without(@[k], {e})]]

delete_entities(st, es) ==
    [st EXCEPT !.alive = @ \ es,
               !.store = [k \in Kinds |-> Without(@[k], es)]]

(***************************************************************************)
(* The spawner: the player, and the entities of a builder's spawn plan.    *)
(***************************************************************************)
\* the categories a spawn plan draws from
SpawnKinds == {"Monster", "Potion", "Scroll", "Shield"}

\* range of the ranged scroll
ScrollRange == 6

\* starting CombatStats of the player and of a monster
PlayerMaxHp == 3
MonsterMaxHp == 2
PlayerStats == [hp |-> PlayerMaxHp, max_hp |-> PlayerMaxHp, power |-> 1, defense |-> 0]
MonsterStats == [hp |-> MonsterMaxHp, max_hp |-> MonsterMaxHp, power |-> 1, defense |-> 0]

\* the components a spawned entity of a category starts with
SpawnComponents(kind, pos) ==
    CASE kind = "Monster" ->
           [k \in {"Monster", "BlocksTile", "Position", "CombatStats"} |->
              CASE k = "Position" -> pos
                [] k = "CombatStats" -> MonsterStats
                [] OTHER -> TRUE]
      [] kind = "Potion" ->
           [k \in {"Item", "Consumable", "Position"} |->
              IF k = "Position" THEN pos ELSE TRUE]
      [] kind = "Scroll" ->
           [k \in {"Item", "Consumable", "Ranged", "Position"} |->
              IF k = "Position" THEN pos ELSE IF k = "Ranged" THEN ScrollRange ELSE TRUE]
      [] kind = "Shield" ->
           [k \in {"Item", "Equipable", "DefenseBonus", "Position"} |->
              IF k = "Position" THEN pos ELSE IF k = "DefenseBonus" THEN 1 ELSE TRUE]

\* spawner::spawn_player(ecs, x, y)
spawn_player(st, x, y) ==
    create_entity(st, [k \in {"Player", "Position", "Viewshed", "CombatStats"} |->
                         CASE k = "Position" -> <<x, y>>
                           [] k = "Viewshed" -> [is_dirty |-> TRUE]
                           [] k = "CombatStats" -> PlayerStats
                           [] OTHER -> TRUE])

\* builder.spawn_entities(ecs): one entity per entry of the plan, in plan order,
\* the i-th on its own tile
RECURSIVE spawn_entities(_, _, _)
spawn_entities(st, plan, i) ==
    IF i > Len(plan) THEN st
    ELSE spawn_entities(create_entity(st, SpawnComponents(plan[i], <<i, 2>>)), plan, i + 1)

\* the spawn plans a builder may produce
SpawnPlans == UNION { [1 .. n -> SpawnKinds] : n \in 0 .. MaxSpawn }
\* the start positions a builder may produce
StartPoints == { <<1, 1>>, <<2, 1>> }

(***************************************************************************)
(* World lifecycle (main.rs:97-205).                                       *)
(***************************************************************************)
\* entities_to_remove_on_level_change: lines 104-122
entities_to_remove_on_level_change(st) ==
    { ent \in st.alive :
        LET is_player == ent = st.player
            is_in_player_bag ==
                IF Has(st, "InBackpack", ent)
                THEN st.store["InBackpack"][ent].owner = st.player ELSE FALSE
            is_equipped_by_player ==
                IF Has(st, "Equipped", ent)
                THEN st.store["Equipped"][ent].owner = st.player ELSE FALSE
        IN  ~is_player /\ ~is_in_player_bag /\ ~is_equipped_by_player }

\* a map generation that moves the player-position resource and leaves the
\* player's Position component where it was
GenerateWorldMapResourceOnly(st, new_depth, plan, start) ==
    LET s1 == [st EXCEPT !.map_depth = new_depth, !.map_start = start,
                         !.tile_content = {}]
        s2 == spawn_entities(s1, plan, 1)
        s3 == [s2 EXCEPT !.player_pos = start]
    IN  IF Has(s3, "Viewshed", s3.player)
        THEN [s3 EXCEPT !.store["Viewshed"][s3.player].is_dirty = TRUE] ELSE s3

\* generate_world_map(new_depth), with the builder's outputs as arguments: the
\* Map resource is replaced by the builder's map (of depth new_depth, with no
\* occupants), the plan is spawned, the player is moved to the start
generate_world_map(st, new_depth, plan, start) ==
    LET s1 == [st EXCEPT !.map_depth = new_depth, !.map_start = start,
                         !.tile_content = {}]
        s2 == spawn_entities(s1, plan, 1)
        s3 == [s2 EXCEPT !.player_pos = start]
        s4 == IF Has(s3, "Position", s3.player)
              THEN [s3 EXCEPT !.store["Position"][s3.player] = start] ELSE s3
    IN  IF Has(s4, "Viewshed", s4.player)
        THEN [s4 EXCEPT !.store["Viewshed"][s4.player].is_dirty = TRUE] ELSE s4

\* a level change that also drops what the player carries in the backpack
ToRemoveAlsoBackpack(st) ==
    { ent \in st.alive :
        /\ ent # st.player
        /\ ~(Has(st, "Equipped", ent) /\ st.store["Equipped"][ent].owner = st.player) }

ToRemoveOnLevelChange(st) == entities_to_remove_on_level_change(st)

\* a heal that sets the player to half max HP whatever the current HP is
HealToHalf(stats) == [stats EXCEPT !.hp = HalfOf(stats.max_hp)]

\* main.rs:147  player_stats.hp = i32::max(player_stats.hp, player_stats.max_hp / 2)
HealOnDescent(stats) == [stats EXCEPT !.hp = i32_max(stats.hp, HalfOf(stats.max_hp))]

\* a level change that rebuilds the map at the depth it already had
GotoSameLevel(st, plan, start) ==
    LET s1 == delete_entities(Call(st, "goto_next_level"), ToRemoveOnLevelChange(st))
        s2 == generate_world_map(s1, s1.map_depth, plan, start)
        s3 == [s2 EXCEPT !.log = Append(@, "You descend to the next level.")]
    IN  IF Has(s3, "CombatStats", s3.player)
        THEN [s3 EXCEPT !.store["CombatStats"][s3.player] = HealOnDescent(@)] ELSE s3

\* goto_next_level
goto_next_level(st, plan, start) ==
    LET s1 == delete_entities(Call(st, "goto_next_level"), ToRemoveOnLevelChange(st))
        current_depth == s1.map_depth
        s2 == generate_world_map(s1, current_depth + 1, plan, start)
        s3 == [s2 EXCEPT !.log = Append(@, "You descend to the next level.")]
    IN  IF Has(s3, "CombatStats", s3.player)
        THEN [s3 EXCEPT !.store["CombatStats"][s3.player] = HealOnDescent(@)] ELSE s3

\* a reset that spawns the new player and leaves the player resource on the
\* deleted one
GameOverCleanupStalePlayer(st, plan, start) ==
    LET s1 == delete_entities(Call(st, "game_over_cleanup"), st.alive)
        s2 == [s1 EXCEPT !.log = <<"Welcome to my Roguelike!">>]
        s3 == spawn_player(s2, 0, 0)
        s4 == [s3 EXCEPT !.player_pos = <<0, 0>>]
    IN  generate_world_map(s4, 1, plan, start)

\* a reset that keeps the message log and adds the welcome to it
GameOverCleanupKeepsLog(st, plan, start) ==
    LET s1 == delete_entities(Call(st, "game_over_cleanup"), st.alive)
        s2 == [s1 EXCEPT !.log = Append(@, "Welcome to my Roguelike!")]
        s3 == spawn_player(s2, 0, 0)
        s4 == [s3 EXCEPT !.player = s2.next_id, !.player_pos = <<0, 0>>]
    IN  generate_world_map(s4, 1, plan, start)

\* game_over_cleanup
game_over_cleanup(st, plan, start) ==
    LET s1 == delete_entities(Call(st, "game_over_cleanup"), st.alive)
        s2 == [s1 EXCEPT !.log = <<"Welcome to my Roguelike!">>]
        s3 == spawn_player(s2, 0, 0)
        s4 == [s3 EXCEPT !.player = s2.next_id, !.player_pos = <<0, 0>>]
    IN  generate_world_map(s4, 1, plan, start)

(***************************************************************************)
(* The system pipeline and the dead-entity cull.                           *)
(***************************************************************************)
\* a pipeline that resolves melee before it rebuilds the occupant index and
\* applies damage only after the item systems
SystemOrderShuffled ==
    << "VisibilitySystem", "MonsterAI", "MeleeCombatSystem", "MapIndexingSystem",
       "ItemCollectionSystem", "ItemUseSystem", "ItemDropSystem",
       "ItemRemoveSystem", "DamageSystem", "ParticleSpawnSystem" >>

\* the systems of run_systems in the order it runs them (main.rs:83-92)
SystemOrder ==
    << "VisibilitySystem", "MonsterAI", "MapIndexingSystem", "MeleeCombatSystem",
       "DamageSystem", "ItemCollectionSystem", "ItemUseSystem", "ItemDropSystem",
       "ItemRemoveSystem", "ParticleSpawnSystem" >>

\* VisibilitySystem: recomputes the dirty viewsheds
VisibilitySystem(st) ==
    [st EXCEPT !.store["Viewshed"] =
        [e \in DOMAIN @ |-> [@[e] EXCEPT !.is_dirty = FALSE]]]

\* are two tiles next to each other, diagonals included
Adjacent(p, q) ==
    /\ p # q
    /\ p[1] - q[1] \in {-1, 0, 1}
    /\ p[2] - q[2] \in {-1, 0, 1}

\* the monsters standing next to the player
AdjacentMonsters(st) ==
    { m \in (DOMAIN st.store["Monster"]) \cap (DOMAIN st.store["Position"]) :
        Adjacent(st.store["Position"][m], st.player_pos) }

\* MonsterAI: in the monsters' turn every monster next to the player wants to
\* attack the player
MonsterAI(st) ==
    IF st.runstate.tag # "MonsterTurn" THEN st
    ELSE [st EXCEPT !.store["WantsToMelee"] =
             [e \in (DOMAIN @) \cup AdjacentMonsters(st) |->
                IF e \in AdjacentMonsters(st) THEN [target |-> st.player] ELSE @[e]]]

\* MapIndexingSystem: the occupant lists are cleared and rebuilt from the
\* entities that have a Position
MapIndexingSystem(st) ==
    [st EXCEPT !.tile_content =
        { <<st.store["Position"][e], e>> : e \in DOMAIN st.store["Position"] }]

\* MeleeCombatSystem: a living attacker deals power minus defense to a living
\* target, as pending damage; the intents are consumed
MeleeCombatSystem(st) ==
    LET wants == st.store["WantsToMelee"]
        stats == st.store["CombatStats"]
        hits(t) == { e \in (DOMAIN wants) \cap (DOMAIN stats) :
                       /\ stats[e].hp > 0
                       /\ wants[e].target = t
                       /\ t \in DOMAIN stats
                       /\ stats[t].hp > 0
                       /\ stats[e].power - stats[t].defense > 0 }
        RECURSIVE Sum(_)
        Sum(S) == IF S = {} THEN 0
                  ELSE LET e == CHOOSE x \in S : TRUE
                       IN  (stats[e].power - stats[wants[e].target].defense) + Sum(S \ {e})
        hit == { t \in DOMAIN stats : hits(t) # {} }
    IN  [st EXCEPT !.store["SufferDamage"] =
                       [t \in (DOMAIN @) \cup hit |->
                          [amount |-> (IF t \in DOMAIN @ THEN @[t].amount ELSE 0)
                                        + Sum(hits(t))]],
                   !.store["WantsToMelee"] = NoComponents]

\* DamageSystem: pending damage comes off the hit points
DamageSystem(st) ==
    LET dmg == st.store["SufferDamage"]
    IN  [st EXCEPT !.store["CombatStats"] =
                       [e \in DOMAIN @ |->
                          IF e \in DOMAIN dmg
                          THEN [@[e] EXCEPT !.hp = @ - dmg[e].amount] ELSE @[e]],
                   !.store["SufferDamage"] = NoComponents]

\* ItemCollectionSystem: a picked up item leaves the map for the backpack
ItemCollectionSystem(st) ==
    LET wants == st.store["WantsToPickupItem"]
        items == { wants[e].item : e \in DOMAIN wants }
        by(i) == (CHOOSE e \in DOMAIN wants : wants[e].item = i)
    IN  [st EXCEPT !.store["Position"] = Without(@, items),
                   !.store["InBackpack"] =
                       [i \in (DOMAIN @) \cup items |->
                          IF i \in items THEN [owner |-> wants[by(i)].collected_by]
                          ELSE @[i]],
                   !.store["WantsToPickupItem"] = NoComponents]

\* ItemUseSystem: an equipable item is equipped by its user, a consumable one
\* is used up
ItemUseSystem(st) ==
    LET wants == st.store["WantsToUseItem"]
        items == { wants[e].item : e \in DOMAIN wants } \cap st.alive
        by(i) == (CHOOSE e \in DOMAIN wants : wants[e].item = i)
        equip == { i \in items : Has(st, "Equipable", i) }
        used  == { i \in items : Has(st, "Consumable", i) }
        s1 == [st EXCEPT !.store["InBackpack"] = Without(@, equip),
                         !.store["Equipped"] =
                             [i \in (DOMAIN @) \cup equip |->
                                IF i \in equip THEN [owner |-> by(i)] ELSE @[i]],
                         !.store["WantsToUseItem"] = NoComponents]
    IN  delete_entities(s1, used)

\* ItemDropSystem: a dropped item leaves the backpack for its owner's tile
ItemDropSystem(st) ==
    LET wants == st.store["WantsToDropItem"]
        items == { wants[e].item : e \in DOMAIN wants } \cap st.alive
        by(i) == (CHOOSE e \in DOMAIN wants : wants[e].item = i)
    IN  [st EXCEPT !.store["InBackpack"] = Without(@, items),
                   !.store["Position"] =
                       [i \in (DOMAIN @) \cup items |->
                          IF i \in items
                          THEN (IF by(i) \in DOMAIN @ THEN @[by(i)] ELSE st.player_pos)
                          ELSE @[i]],
                   !.store["WantsToDropItem"] = NoComponents]

\* ItemRemoveSystem: a removed item goes from equipped back to the backpack
ItemRemoveSystem(st) ==
    LET wants == st.store["WantsToRemoveItem"]
        items == { wants[e].item : e \in DOMAIN wants } \cap st.alive
        by(i) == (CHOOSE e \in DOMAIN wants : wants[e].item = i)
    IN  [st EXCEPT !.store["Equipped"] = Without(@, items),
                   !.store["InBackpack"] =
                       [i \in (DOMAIN @) \cup items |->
                          IF i \in items THEN [owner |-> by(i)] ELSE @[i]],
                   !.store["WantsToRemoveItem"] = NoComponents]

\* one system of the pipeline
RunSystem(st, name) ==
    CASE name = "VisibilitySystem" -> VisibilitySystem(st)
      [] name = "MonsterAI" -> MonsterAI(st)
      [] name = "MapIndexingSystem" -> MapIndexingSystem(st)
      [] name = "MeleeCombatSystem" -> MeleeCombatSystem(st)
      [] name = "DamageSystem" -> DamageSystem(st)
      [] name = "ItemCollectionSystem" -> ItemCollectionSystem(st)
      [] name = "ItemUseSystem" -> ItemUseSystem(st)
      [] name = "ItemDropSystem" -> ItemDropSystem(st)
      [] name = "ItemRemoveSystem" -> ItemRemoveSystem(st)
      [] OTHER -> st

RECURSIVE RunSystemsFrom(_, _)
RunSystemsFrom(st, i) ==
    IF i > Len(SystemOrder) THEN st
    ELSE RunSystemsFrom(RunSystem(Call(st, SystemOrder[i]), SystemOrder[i]), i + 1)

\* DamageSystem::delete_the_dead: every entity other than the player whose hp
\* is gone is deleted
delete_the_dead(st) ==
    delete_entities(Call(st, "delete_the_dead"),
                    { e \in DOMAIN st.store["CombatStats"] :
                        st.store["CombatStats"][e].hp < 1 /\ ~Has(st, "Player", e) })

\* run_systems (main.rs:71-95): every system once, in order, then maintain
run_systems(st) ==
    LET s1 == RunSystemsFrom(Call(st, "run_systems"), 1)
    IN  [Call(s1, "maintain") EXCEPT !.systems_run = @ + 1]

(***************************************************************************)
(* Save and load (save_load_util.rs).                                      *)
(***************************************************************************)
\* a path with no file, and a file that is not a save document
NoFile == [kind |-> "none"]
Malformed == [kind |-> "malformed"]

\* a save document: one JSON sequence per component kind, in the order the
\* kinds were written; the sequence of a kind has one entry per marked entity,
\* holding the entity's marker and the component or null.  markers are the
\* marked entities (an entity's id serves as its marker), segs[i] the non-null
\* components of the i-th sequence, each with the shape of its kind
MakeDoc(kinds, markers, comps) ==
    [ kind |-> "doc",
      markers |-> markers,
      segs |-> [i \in DOMAIN kinds |->
                  [m \in (DOMAIN comps[kinds[i]]) \cap markers |->
                     [kind |-> kinds[i], val |-> comps[kinds[i]][m]]]] ]

\* the entity references inside a component, renamed by f
ConvertRefs(kind, val, f) ==
    CASE kind \in {"InBackpack", "Equipped"} -> [val EXCEPT !.owner = f[@]]
      [] kind \in {"WantsToUseItem", "WantsToDropItem", "WantsToRemoveItem"} ->
           [val EXCEPT !.item = f[@]]
      [] kind = "WantsToMelee" -> [val EXCEPT !.target = f[@]]
      [] kind = "WantsToPickupItem" ->
           [val EXCEPT !.item = f[@], !.collected_by = f[@]]
      [] OTHER -> val

\* save_game (save_load_util.rs:39-88)
save_game(st) ==
    LET helper == st.next_id
        s1 == create_entity(Call(st, "save_game"),
                            [k \in {"SerializationHelper"} |->
                               [map |-> [depth |-> st.map_depth]]])
    IN  IF ~st.saves_dir
        THEN \* File::create("./saves/savegame.json").unwrap() fails
             [s1 EXCEPT !.halted = "panicked"]
        ELSE [delete_entity(s1, helper) EXCEPT
                 !.next_id = st.next_id,
                 !.saves_file = MakeDoc(SaveKinds, s1.alive, s1.store)]

\* does deserialize_individually! read the document without an error: there is a
\* sequence for every kind it reads, and no sequence holds a component of
\* another kind than the one it is read as
Readable(doc) ==
    /\ doc.kind = "doc"
    /\ Len(doc.segs) >= Len(LoadKinds)
    /\ \A i \in DOMAIN LoadKinds :
          \A m \in DOMAIN doc.segs[i] : doc.segs[i][m].kind = LoadKinds[i]

\* the largest element of a non-empty set of entities: the last one a join visits
Last(S) == CHOOSE e \in S : \A o \in S : o <= e

\* load_game (save_load_util.rs:90-164)
load_game(st) ==
    LET s1 == delete_entities(Call(st, "load_game"), st.alive)
        doc == st.root_file
    IN  IF ~Readable(doc)
        THEN \* read_to_string(..).unwrap() or a deserialize(..).unwrap() fails
             [s1 EXCEPT !.halted = "panicked"]
        ELSE
        LET \* every marker of the document gets a new entity, in marker order
            ent == [m \in doc.markers |->
                      s1.next_id + Cardinality({ o \in doc.markers : o < m })]
            loaded == [k \in Kinds |->
                         IF \E i \in DOMAIN LoadKinds : LoadKinds[i] = k
                         THEN LET i == CHOOSE j \in DOMAIN LoadKinds : LoadKinds[j] = k
                              IN  [e \in { ent[m] : m \in DOMAIN doc.segs[i] } |->
                                     LET m == CHOOSE o \in DOMAIN doc.segs[i] : ent[o] = e
                                     IN  ConvertRefs(k, doc.segs[i][m].val, ent)]
                         ELSE NoComponents]
            s2 == [s1 EXCEPT !.alive = { ent[m] : m \in doc.markers },
                             !.store = loaded,
                             !.next_id = @ + Cardinality(doc.markers)]
            helpers == DOMAIN s2.store["SerializationHelper"]
            players == (DOMAIN s2.store["Player"]) \cap (DOMAIN s2.store["Position"])
            s3 == IF helpers = {} THEN s2
                  ELSE [s2 EXCEPT !.map_depth =
                           s2.store["SerializationHelper"][Last(helpers)].map.depth,
                                  !.tile_content = {}]
            s4 == IF players = {} THEN s3
                  ELSE [s3 EXCEPT !.player = Last(players),
                                  !.player_pos = s3.store["Position"][Last(players)]]
        IN  IF helpers = {}
            THEN \* delete_me.unwrap() fails
                 [s4 EXCEPT !.halted = "panicked"]
            ELSE delete_entity(s4, Last(helpers))

\* does_save_exist
does_save_exist(st) == st.root_file.kind # "none"

\* delete_save
delete_save(st) ==
    IF does_save_exist(st)
    THEN [Call(st, "delete_save") EXCEPT !.root_file = NoFile]
    ELSE Call(st, "delete_save")

\* a save file left at ./savegame.json that load_game reads without an error:
\* a wounded player (marker 1) carrying a potion (marker 2) on a map of depth 2
OldSave ==
    MakeDoc(LoadKinds, {1, 2, 3},
            [k \in Kinds |->
               CASE k = "Player" -> [m \in {1} |-> TRUE]
                 [] k = "Position" -> [m \in {1} |-> <<2, 1>>]
                 [] k = "Viewshed" -> [m \in {1} |-> [is_dirty |-> TRUE]]
                 [] k = "CombatStats" -> [m \in {1} |-> [PlayerStats EXCEPT !.hp = 1]]
                 [] k \in {"Item", "Consumable"} -> [m \in {2} |-> TRUE]
                 [] k = "InBackpack" -> [m \in {2} |-> [owner |-> 1]]
                 [] k = "SerializationHelper" -> [m \in {3} |-> [map |-> [depth |-> 2]]]
                 [] OTHER -> NoComponents])

(***************************************************************************)
(* The collaborators of tick: input and menus.                             *)
(***************************************************************************)
\* what the player carries in the backpack, and what the player has equipped
Carried(st) ==
    { i \in DOMAIN st.store["InBackpack"] : st.store["InBackpack"][i].owner = st.player }
Worn(st) ==
    { i \in DOMAIN st.store["Equipped"] : st.store["Equipped"][i].owner = st.player }
\* the items lying on the map
OnFloor(st) == (DOMAIN st.store["Item"]) \cap (DOMAIN st.store["Position"])

\* the tiles a targeting menu can return
TargetPoints == { <<1, 2>>, <<2, 2>> }

NoInput == [result |-> "-"]

\* Option<Point>: None and Some(p)
NoTarget == [some |-> FALSE, point |-> <<0, 0>>]
Some(p) == [some |-> TRUE, point |-> p]

\* the results of gui::show_inventory
show_inventory(st) ==
    { [result |-> "Selected", item |-> i] : i \in Carried(st) }
      \cup { [result |-> "Cancel"], [result |-> "NoResponse"] }
\* the results of gui::show_remove_inventory
show_remove_inventory(st) ==
    { [result |-> "Selected", item |-> i] : i \in Worn(st) }
      \cup { [result |-> "Cancel"], [result |-> "NoResponse"] }
\* the results of gui::draw_range
draw_range(st) ==
    { [result |-> "Selected", target |-> t] : t \in TargetPoints }
      \cup { [result |-> "Cancel"], [result |-> "NoResponse"] }
\* the results of gui::draw_main_menu
MainMenuSelections == {"NewGame", "LoadGame", "Quit"}
draw_main_menu(st) ==
    { [result |-> r, option |-> o] :
        r \in {"NoSelection", "Selection"}, o \in MainMenuSelections }
\* the results of gui::show_game_over
show_game_over(st) == { [result |-> "NoSelection"], [result |-> "QuitToMenu"] }

\* the results of player_input: the next RunState, and for a pick-up the
\* intent the input handler leaves on the player.  The transition table gives
\* AwaitingInput the successors PlayerTurn, ShowInventory, ShowDropItem,
\* ShowRemoveItem, SaveGame and AwaitingInput; tick also handles NextLevel and
\* GameOver, which no branch of tick publishes, so the input handler's result
\* (main.rs:246) is where they enter.
InputStates ==
    { "AwaitingInput", "PlayerTurn", "ShowInventory", "ShowDropItem",
      "ShowRemoveItem", "SaveGame", "NextLevel", "GameOver" }
player_input_results(st) ==
    { [result |-> "State", to |-> t] : t \in InputStates }
      \cup { [result |-> "Pickup", item |-> i] : i \in OnFloor(st) }
      \cup { [result |-> "Melee", target |-> m] : m \in AdjacentMonsters(st) }

\* a step onto an item's tile picks the item up, a step into a monster attacks it
player_input(st, inp) ==
    CASE inp.result = "Pickup" ->
           [st |-> [st EXCEPT !.store["WantsToPickupItem"] =
                       Put(@, st.player, [collected_by |-> st.player, item |-> inp.item])],
            next |-> RS("PlayerTurn")]
      [] inp.result = "Melee" ->
           [st |-> [st EXCEPT !.store["WantsToMelee"] =
                       Put(@, st.player, [target |-> inp.target])],
            next |-> RS("PlayerTurn")]
      [] OTHER -> [st |-> st, next |-> RS(inp.to)]

(***************************************************************************)
(* tick (main.rs:209-399): the branch on the RunState, as the pair of the   *)
(* state it leaves and the next_state it computes.                         *)
(***************************************************************************)
\* main.rs:22
SHOW_MAPGEN == FALSE
\* a map generation that hands over to PreRun instead of the main menu
mapgen_next_state_PreRun == RS("PreRun")

\* State.mapgen_next_state, set at main.rs:416 and never assigned again
mapgen_next_state == MainMenu("NewGame")

\* a player turn that hands the turn straight back to the player
BranchPlayerTurnSkipsMonsters(st) ==
    [st |-> run_systems(st), next |-> RS("AwaitingInput")]

\* a monster turn that runs no system
BranchMonsterTurnIdle(st) == [st |-> st, next |-> RS("AwaitingInput")]

\* lines 241-255
BranchPreRun(st) == [st |-> run_systems(st), next |-> RS("AwaitingInput")]
BranchPlayerTurn(st) == [st |-> run_systems(st), next |-> RS("MonsterTurn")]
BranchMonsterTurn(st) == [st |-> run_systems(st), next |-> RS("AwaitingInput")]
\* lines 256-259
BranchSaveGame(st) == [st |-> save_game(st), next |-> MainMenu("LoadGame")]
\* a level advance that publishes PreRun before it rebuilds the world
BranchNextLevelPublishesFirst(st, plan, start) ==
    [st |-> goto_next_level(insert_RunState(st, RS("PreRun")), plan, start),
     next |-> RS("PreRun")]

\* lines 260-263
BranchNextLevel(st, plan, start) ==
    [st |-> goto_next_level(st, plan, start), next |-> RS("PreRun")]

\* an inventory menu that uses a ranged item at once, without a target
BranchShowInventoryNoTargeting(st, inp) ==
    CASE inp.result = "Selected" ->
           [st |-> [st EXCEPT !.store["WantsToUseItem"] =
                       Put(@, st.player, [item |-> inp.item, target |-> NoTarget])],
            next |-> RS("PlayerTurn")]
      [] inp.result = "Cancel" -> [st |-> st, next |-> RS("AwaitingInput")]
      [] OTHER -> [st |-> st, next |-> st.runstate]

\* lines 264-288
BranchShowInventory(st, inp) ==
    CASE inp.result = "Selected" ->
           IF Has(st, "Ranged", inp.item)
           THEN [st |-> st, next |-> ShowTargeting(st.store["Ranged"][inp.item], inp.item)]
           ELSE [st |-> [st EXCEPT !.store["WantsToUseItem"] =
                            Put(@, st.player, [item |-> inp.item, target |-> NoTarget])],
                 next |-> RS("PlayerTurn")]
      [] inp.result = "Cancel" -> [st |-> st, next |-> RS("AwaitingInput")]
      [] OTHER -> [st |-> st, next |-> st.runstate]

\* a drop menu whose every tick takes a turn
BranchShowDropItemTakesTurn(st, inp) ==
    CASE inp.result = "Selected" ->
           [st |-> [st EXCEPT !.store["WantsToDropItem"] =
                       Put(@, st.player, [item |-> inp.item])],
            next |-> RS("PlayerTurn")]
      [] inp.result = "Cancel" -> [st |-> st, next |-> RS("AwaitingInput")]
      [] OTHER -> [st |-> run_systems(st), next |-> st.runstate]

\* lines 289-308
BranchShowDropItem(st, inp) ==
    CASE inp.result = "Selected" ->
           [st |-> [st EXCEPT !.store["WantsToDropItem"] =
                       Put(@, st.player, [item |-> inp.item])],
            next |-> RS("PlayerTurn")]
      [] inp.result = "Cancel" -> [st |-> st, next |-> RS("AwaitingInput")]
      [] OTHER -> [st |-> st, next |-> st.runstate]

\* lines 309-328
BranchShowRemoveItem(st, inp) ==
    CASE inp.result = "Selected" ->
           [st |-> [st EXCEPT !.store["WantsToRemoveItem"] =
                       Put(@, st.player, [item |-> inp.item])],
            next |-> RS("PlayerTurn")]
      [] inp.result = "Cancel" -> [st |-> st, next |-> RS("AwaitingInput")]
      [] OTHER -> [st |-> st, next |-> st.runstate]

\* a targeting menu that closes when it gets no response
BranchShowTargetingCloses(st, inp) ==
    CASE inp.result = "Selected" ->
           [st |-> [st EXCEPT !.store["WantsToUseItem"] =
                       Put(@, st.player,
                           [item |-> st.runstate.item, target |-> Some(inp.target)])],
            next |-> RS("PlayerTurn")]
      [] OTHER -> [st |-> st, next |-> RS("AwaitingInput")]

\* lines 329-342
BranchShowTargeting(st, inp) ==
    CASE inp.result = "Selected" ->
           [st |-> [st EXCEPT !.store["WantsToUseItem"] =
                       Put(@, st.player,
                           [item |-> st.runstate.item, target |-> Some(inp.target)])],
            next |-> RS("PlayerTurn")]
      [] inp.result = "Cancel" -> [st |-> st, next |-> RS("AwaitingInput")]
      [] OTHER -> [st |-> st, next |-> st.runstate]

\* a main menu whose NewGame skips PreRun
BranchMainMenuSkipsPreRun(st, inp, plan, start) ==
    CASE inp.result = "NoSelection" -> [st |-> st, next |-> MainMenu(inp.option)]
      [] inp.option = "NewGame" ->
           [st |-> game_over_cleanup(st, plan, start), next |-> RS("AwaitingInput")]
      [] inp.option = "LoadGame" ->
           IF does_save_exist(st)
           THEN LET s1 == load_game(st)
                IN  [st |-> IF s1.halted = "running" THEN delete_save(s1) ELSE s1,
                     next |-> RS("AwaitingInput")]
           ELSE [st |-> st, next |-> MainMenu(inp.option)]
      [] OTHER -> [st |-> [st EXCEPT !.halted = "exited"], next |-> st.runstate]

\* a main menu that loads without asking whether a save exists
BranchMainMenuLoadsBlindly(st, inp, plan, start) ==
    CASE inp.result = "NoSelection" -> [st |-> st, next |-> MainMenu(inp.option)]
      [] inp.option = "NewGame" ->
           [st |-> game_over_cleanup(st, plan, start),
            next |-> IF SHOW_MAPGEN THEN RS("MapGeneration") ELSE RS("PreRun")]
      [] inp.option = "LoadGame" ->
           LET s1 == load_game(st)
           IN  [st |-> IF s1.halted = "running" THEN delete_save(s1) ELSE s1,
                next |-> RS("AwaitingInput")]
      [] OTHER -> [st |-> [st EXCEPT !.halted = "exited"], next |-> st.runstate]

\* lines 343-366
BranchMainMenu(st, inp, plan, start) ==
    CASE inp.result = "NoSelection" -> [st |-> st, next |-> MainMenu(inp.option)]
      [] inp.option = "NewGame" ->
           [st |-> game_over_cleanup(st, plan, start),
            next |-> IF SHOW_MAPGEN THEN RS("MapGeneration") ELSE RS("PreRun")]
      [] inp.option = "LoadGame" ->
           IF does_save_exist(st)
           THEN LET s1 == load_game(st)
                IN  [st |-> IF s1.halted = "running" THEN delete_save(s1) ELSE s1,
                     next |-> RS("AwaitingInput")]
           ELSE [st |-> st, next |-> MainMenu(inp.option)]
      [] OTHER -> \* Quit: std::process::exit(0)
           [st |-> [st EXCEPT !.halted = "exited"], next |-> st.runstate]

\* a game-over screen that starts the new game itself
BranchGameOverStartsGame(st, inp, plan, start) ==
    IF inp.result = "QuitToMenu"
    THEN [st |-> game_over_cleanup(st, plan, start), next |-> RS("PreRun")]
    ELSE [st |-> st, next |-> st.runstate]

\* lines 367-376
BranchGameOver(st, inp, plan, start) ==
    IF inp.result = "QuitToMenu"
    THEN [st |-> game_over_cleanup(st, plan, start), next |-> MainMenu("NewGame")]
    ELSE [st |-> st, next |-> st.runstate]

\* lines 377-393, with SHOW_MAPGEN = false
BranchMapGeneration(st) == [st |-> st, next |-> mapgen_next_state]

\* lines 396-398: publish next_state, then cull the dead; a tick the process
\* did not survive publishes nothing
Publish(r) ==
    IF r.st.halted # "running" THEN r.st
    ELSE delete_the_dead(insert_RunState(r.st, r.next))

(***************************************************************************)
(* The state machine: one action per branch of tick.                       *)
(***************************************************************************)
\* the state a tick starts from
TickStart == [State EXCEPT !.systems_run = 0, !.calls = <<>>, !.runstate_writes = <<>>]

\* the part of the world the claims compare across a tick
WorldView ==
    [alive |-> alive, store |-> store, player |-> player, player_pos |-> player_pos,
     map_depth |-> map_depth, map_start |-> map_start, tile_content |-> tile_content,
     log |-> log, root_file |-> root_file]

\* is the melee intent the player holds in st lethal to the monster m next to
\* the player
LethalIntent(st, m) ==
    LET stats == st.store["CombatStats"]
        wants == st.store["WantsToMelee"]
    IN  /\ m \in AdjacentMonsters(st)
        /\ st.player \in DOMAIN wants
        /\ wants[st.player].target = m
        /\ st.player \in DOMAIN stats
        /\ m \in DOMAIN stats
        /\ stats[st.player].hp > 0
        /\ stats[m].hp > 0
        /\ stats[st.player].power - stats[m].defense >= stats[m].hp

\* the tick ends in state st, having been answered inp by its collaborator
Apply(st, inp) ==
    /\ alive' = st.alive
    /\ store' = st.store
    /\ player' = st.player
    /\ player_pos' = st.player_pos
    /\ map_depth' = st.map_depth
    /\ map_start' = st.map_start
    /\ tile_content' = st.tile_content
    /\ log' = st.log
    /\ runstate' = st.runstate
    /\ next_id' = st.next_id
    /\ saves_dir' = st.saves_dir
    /\ saves_file' = st.saves_file
    /\ root_file' = st.root_file
    /\ halted' = st.halted
    /\ systems_run' = st.systems_run
    /\ calls' = st.calls
    /\ runstate_writes' = st.runstate_writes
    /\ tick_from' = runstate
    /\ tick_input' = inp
    /\ world_in' = WorldView
    /\ doomed' = CASE runstate.tag = "PlayerTurn" ->
                         { m \in alive : LethalIntent(State, m) }
                    [] runstate.tag = "MonsterTurn" -> doomed
                    [] OTHER -> {}
    /\ UNCHANGED <<cullVars, rt_pc>>

In(tag) == halted = "running" /\ runstate.tag = tag

\* the spawn plans the entity ids left allow, keeping `reserve` ids back
PlansWithin(reserve) ==
    { p \in SpawnPlans : next_id + reserve + Len(p) - 1 <= MaxId }

TickMapGeneration ==
    /\ In("MapGeneration")
    /\ Apply(Publish(BranchMapGeneration(TickStart)), NoInput)

TickPreRun ==
    /\ In("PreRun")
    /\ Apply(Publish(BranchPreRun(TickStart)), NoInput)

TickAwaitingInput ==
    /\ In("AwaitingInput")
    /\ \E inp \in player_input_results(TickStart) :
          Apply(Publish(player_input(TickStart, inp)), inp)

TickPlayerTurn ==
    /\ In("PlayerTurn")
    /\ Apply(Publish(BranchPlayerTurn(TickStart)), NoInput)

TickMonsterTurn ==
    /\ In("MonsterTurn")
    /\ Apply(Publish(BranchMonsterTurn(TickStart)), NoInput)

TickSaveGame ==
    /\ In("SaveGame")
    /\ Apply(Publish(BranchSaveGame(TickStart)), NoInput)

TickNextLevel ==
    /\ In("NextLevel")
    /\ map_depth < MaxDepth
    /\ \E plan \in PlansWithin(0), start \in StartPoints :
          Apply(Publish(BranchNextLevel(TickStart, plan, start)), NoInput)

TickShowInventory ==
    /\ In("ShowInventory")
    /\ \E inp \in show_inventory(TickStart) :
          Apply(Publish(BranchShowInventory(TickStart, inp)), inp)

TickShowDropItem ==
    /\ In("ShowDropItem")
    /\ \E inp \in show_inventory(TickStart) :
          Apply(Publish(BranchShowDropItem(TickStart, inp)), inp)

TickShowRemoveItem ==
    /\ In("ShowRemoveItem")
    /\ \E inp \in show_remove_inventory(TickStart) :
          Apply(Publish(BranchShowRemoveItem(TickStart, inp)), inp)

TickShowTargeting ==
    /\ In("ShowTargeting")
    /\ \E inp \in draw_range(TickStart) :
          Apply(Publish(BranchShowTargeting(TickStart, inp)), inp)

\* a menu tick that builds a new world needs an id for the new player; a load
\* is the last thing to allocate entities
TickMainMenu ==
    /\ In("MainMenu")
    /\ \E inp \in draw_main_menu(TickStart) :
          IF inp.result = "Selection" /\ inp.option = "NewGame"
          THEN /\ next_id <= MaxId
               /\ \E plan \in PlansWithin(1), start \in StartPoints :
                     Apply(Publish(BranchMainMenu(TickStart, inp, plan, start)), inp)
          ELSE /\ (inp.result = "Selection" /\ inp.option = "LoadGame"
                     /\ root_file.kind = "doc")
                  => next_id <= MaxId
               /\ Apply(Publish(BranchMainMenu(TickStart, inp, <<>>, <<0, 0>>)), inp)

TickGameOver ==
    /\ In("GameOver")
    /\ \E inp \in show_game_over(TickStart) :
          IF inp.result = "QuitToMenu"
          THEN /\ next_id <= MaxId
               /\ \E plan \in PlansWithin(1), start \in StartPoints :
                     Apply(Publish(BranchGameOver(TickStart, inp, plan, start)), inp)
          ELSE Apply(Publish(BranchGameOver(TickStart, inp, <<>>, <<0, 0>>)), inp)

Next ==
    \/ TickMapGeneration
    \/ TickPreRun
    \/ TickAwaitingInput
    \/ TickPlayerTurn
    \/ TickMonsterTurn
    \/ TickSaveGame
    \/ TickNextLevel
    \/ TickShowInventory
    \/ TickShowDropItem
    \/ TickShowRemoveItem
    \/ TickShowTargeting
    \/ TickMainMenu
    \/ TickGameOver

\* the reachability pass is not running
CullIdle ==
    /\ tiles = [i \in TileIdx |-> "Wall"]
    /\ start_idx = 0
    /\ tiles_in = [i \in TileIdx |-> "Wall"]
    /\ cull_pc = "idle"

\* the world main() sets up before the first tick (main.rs:413-479), started
\* from st; the environment decides which files exist
Boot(dir, root, plan, start) ==
    LET s0 == [ alive |-> {}, store |-> EmptyStore, player |-> 0, player_pos |-> <<0, 0>>,
                map_depth |-> 1, map_start |-> <<0, 0>>, tile_content |-> {},
                log |-> <<"Welcome to my roguelike">>,
                runstate |-> RS("MapGeneration"), next_id |-> 1,
                saves_dir |-> dir, saves_file |-> NoFile, root_file |-> root,
                halted |-> "running", systems_run |-> 0, calls |-> <<>>,
      runstate_writes |-> <<>> ]
        s1 == spawn_player(s0, 0, 0)
    IN  generate_world_map([s1 EXCEPT !.player = s0.next_id], 1, plan, start)

\* the files the environment may have left at ./savegame.json
RootFiles == { NoFile, Malformed, OldSave }

SetState(st) ==
    /\ alive = st.alive
    /\ store = st.store
    /\ player = st.player
    /\ player_pos = st.player_pos
    /\ map_depth = st.map_depth
    /\ map_start = st.map_start
    /\ tile_content = st.tile_content
    /\ log = st.log
    /\ runstate = st.runstate
    /\ next_id = st.next_id
    /\ saves_dir = st.saves_dir
    /\ saves_file = st.saves_file
    /\ root_file = st.root_file
    /\ halted = st.halted
    /\ systems_run = st.systems_run
    /\ calls = st.calls
    /\ runstate_writes = st.runstate_writes
    /\ tick_from = RS("-")
    /\ tick_input = NoInput
    /\ world_in = [alive |-> {}, store |-> EmptyStore, player |-> 0,
                   player_pos |-> <<0, 0>>, map_depth |-> 0, map_start |-> <<0, 0>>,
                   tile_content |-> {}, log |-> <<>>, root_file |-> NoFile]
    /\ doomed = {}

Init ==
    /\ CullIdle
    /\ rt_pc = "idle"
    /\ \E dir \in BOOLEAN, root \in RootFiles, start \in StartPoints :
         \E plan \in { p \in SpawnPlans : 1 + Len(p) <= MaxId } :
            SetState(Boot(dir, root, plan, start))

Spec == Init /\ [][Next]_vars

(***************************************************************************)
(* Level advance on any world: every set of entities 1..MaxWorldEnt, any   *)
(* of them the player, every entity free, in a backpack or equipped, owned *)
(* by any entity.                                                          *)
(***************************************************************************)
Ownerships ==
    { [kind |-> "None", owner |-> 0] }
      \cup { [kind |-> k, owner |-> o] :
               k \in {"InBackpack", "Equipped"}, o \in 1 .. MaxWorldEnt }

AnyWorld(al, pl, own, dir, root) ==
    [ alive |-> al,
      store |-> [k \in Kinds |->
                   CASE k \in {"InBackpack", "Equipped"} ->
                          [e \in { x \in al : own[x].kind = k } |-> [owner |-> own[e].owner]]
                     [] k = "Item" -> [e \in al \ {pl} |-> TRUE]
                     [] k = "Player" -> [e \in {pl} |-> TRUE]
                     [] k = "Position" -> [e \in {pl} |-> <<1, 1>>]
                     [] k = "Viewshed" -> [e \in {pl} |-> [is_dirty |-> FALSE]]
                     [] OTHER -> NoComponents],
      player |-> pl, player_pos |-> <<1, 1>>, map_depth |-> 1,
      map_start |-> <<1, 1>>, tile_content |-> {},
      log |-> <<"Welcome to my roguelike">>,
      runstate |-> RS("NextLevel"), next_id |-> MaxWorldEnt + 1,
      saves_dir |-> dir, saves_file |-> NoFile, root_file |-> root,
      halted |-> "running", systems_run |-> 0, calls |-> <<>>,
      runstate_writes |-> <<>> ]

InitLevel ==
    /\ CullIdle
    /\ rt_pc = "idle"
    /\ \E al \in SUBSET (1 .. MaxWorldEnt) :
         \E pl \in al, own \in [al -> Ownerships] :
            SetState(AnyWorld(al, pl, own, TRUE, NoFile))

NextLevelOnly == TickNextLevel

SpecLevel == InitLevel /\ [][NextLevelOnly]_vars

(***************************************************************************)
(* Level advance of a player with any hit points: hp and max_hp range over *)
(* -MaxHp .. MaxHp independently.                                          *)
(***************************************************************************)
InitHeal ==
    /\ CullIdle
    /\ rt_pc = "idle"
    /\ \E hp \in (-MaxHp) .. MaxHp, max_hp \in (-MaxHp) .. MaxHp :
         SetState([AnyWorld({1}, 1, [e \in {1} |-> [kind |-> "None", owner |-> 0]],
                            TRUE, NoFile)
                      EXCEPT !.store["CombatStats"] =
                                [e \in {1} |-> [hp |-> hp, max_hp |-> max_hp,
                                                power |-> 1, defense |-> 0]]])

NextHeal == TickNextLevel

SpecHeal == InitHeal /\ [][NextHeal]_vars

(***************************************************************************)
(* Save followed by load into a fresh world, from any world: the worlds of *)
(* the level-advance specification, some with a shield, at any depth, with *)
(* or without the directory ./saves and a file at ./savegame.json.         *)
(***************************************************************************)
\* the world st with a DefenseBonus on the entities es
WithBonus(st, es) ==
    [st EXCEPT !.store["DefenseBonus"] = [e \in es |-> 1],
               !.store["Equipable"] = [e \in es |-> TRUE]]

InitRoundTrip ==
    /\ CullIdle
    /\ rt_pc = "start"
    /\ \E al \in SUBSET (1 .. MaxWorldEnt) :
         \E pl \in al, own \in [al -> Ownerships], shields \in SUBSET al,
            depth \in 1 .. MaxDepth, dir \in BOOLEAN, root \in {NoFile, OldSave} :
            /\ pl \notin shields
            /\ \A e \in al : own[e].kind # "None" => own[e].owner = pl
            /\ SetState([WithBonus(AnyWorld(al, pl, own, dir, root), shields)
                            EXCEPT !.map_depth = depth,
                                   !.runstate = RS("AwaitingInput")])

\* the state st is what a save/load step leaves
ApplyStep(st, pc) ==
    /\ alive' = st.alive
    /\ store' = st.store
    /\ player' = st.player
    /\ player_pos' = st.player_pos
    /\ map_depth' = st.map_depth
    /\ map_start' = st.map_start
    /\ tile_content' = st.tile_content
    /\ log' = st.log
    /\ next_id' = st.next_id
    /\ saves_dir' = st.saves_dir
    /\ saves_file' = st.saves_file
    /\ root_file' = st.root_file
    /\ halted' = st.halted
    /\ rt_pc' = pc
    /\ UNCHANGED <<runstate, systems_run, calls, runstate_writes, tick_from,
                   tick_input, doomed,
                   cullVars>>

\* save_game(&mut ecs)
DoSave ==
    /\ rt_pc = "start"
    /\ world_in' = WorldView
    /\ ApplyStep(save_game(State), "saved")

\* a world with every component registered and no entity in it
FreshWorld(st) ==
    [st EXCEPT !.alive = {}, !.store = EmptyStore, !.player = 0,
               !.player_pos = <<0, 0>>, !.map_depth = 1]

\* load_game(&mut fresh)
DoLoad ==
    /\ rt_pc = "saved"
    /\ halted = "running"
    /\ UNCHANGED world_in
    /\ ApplyStep(load_game(FreshWorld(State)), "loaded")

NextRoundTrip == DoSave \/ DoLoad

SpecRoundTrip == InitRoundTrip /\ [][NextRoundTrip]_vars

(***************************************************************************)
(* Specification of the reachability pass: every map of MapW x MapH wall   *)
(* and floor tiles, every floor tile as the start.                         *)
(***************************************************************************)
InitCull ==
    /\ tiles \in [TileIdx -> {"Wall", "Floor"}]
    /\ start_idx \in TileIdx
    /\ tiles[start_idx] = "Floor"
    /\ tiles_in = tiles
    /\ cull_pc = "built"
    /\ rt_pc = "idle"
    /\ SetState(Boot(FALSE, NoFile, <<>>, <<1, 1>>))

CullAndSetExit ==
    /\ cull_pc = "built"
    /\ tiles' = cull_and_set_exit(tiles, start_idx)
    /\ cull_pc' = "culled"
    /\ UNCHANGED <<start_idx, tiles_in>>
    /\ UNCHANGED gameVars

NextCull == CullAndSetExit

SpecCull == InitCull /\ [][NextCull]_vars

(***************************************************************************)
(* Reachability by 4-directional floor-to-floor steps, as a closure.       *)
(***************************************************************************)
RECURSIVE FloorClosure(_, _)
FloorClosure(t, seen) ==
    LET more == { j \in TileIdx \ seen :
                    t[j] = "Floor" /\ \E i \in seen : j \in Exits(i) }
    IN  IF more = {} THEN seen ELSE FloorClosure(t, seen \cup more)

\* the tiles a walk from the start reaches over Floor tiles of t
FloorReach(t, start) == FloorClosure(t, {start})

\* C3: after the reachability pass every tile that is still Floor is reachable
\* from the start tile by 4-directional floor-to-floor steps
C3_FloorConnected ==
    cull_pc = "culled" =>
        \A i \in TileIdx : tiles[i] = "Floor" => i \in FloorReach(tiles, start_idx)

\* a disconnected floor pocket was walled off while connected floor remains
C3_Witness ==
    /\ cull_pc = "culled"
    /\ \E i \in TileIdx : tiles_in[i] = "Floor" /\ tiles[i] = "Wall"
    /\ \E j \in TileIdx : j # start_idx /\ tiles[j] = "Floor"

\* the tiles whose kind is DownStairs
Stairs(t) == { i \in TileIdx : t[i] = "StairsDown" }

\* the largest finite distance of a floor tile of the input map
MaxFloorDist(t, start) ==
    LET dm == DijkstraMap(t, start)
        ds == { dm[i] : i \in { j \in TileIdx : t[j] = "Floor" /\ dm[j] # F32_MAX } }
    IN  CHOOSE d \in ds : \A e \in ds : e <= d

\* C4: after cull_and_set_exit exactly one tile is DownStairs, it is reachable
\* from the start, and its distance is the maximum finite distance among the
\* floor tiles (the degenerate single-floor-tile case included)
C4_OneFarthestReachableExit ==
    cull_pc = "culled" =>
        /\ Cardinality(Stairs(tiles)) = 1
        /\ \A s \in Stairs(tiles) :
              /\ DijkstraMap(tiles_in, start_idx)[s] # F32_MAX
              /\ DijkstraMap(tiles_in, start_idx)[s] = MaxFloorDist(tiles_in, start_idx)

(***************************************************************************)
(* Level advance.                                                          *)
(***************************************************************************)
\* is e, in the world w, an item whose InBackpack or Equipped owner is p
OwnedBy(w, e, p) ==
    \/ e \in DOMAIN w.store["InBackpack"] /\ w.store["InBackpack"][e].owner = p
    \/ e \in DOMAIN w.store["Equipped"] /\ w.store["Equipped"][e].owner = p

\* C1: of the entities alive before goto_next_level, exactly the player and
\* the entities whose InBackpack or Equipped owner is the player are alive
\* after it; every other one is deleted
C1_RetainSet ==
    (tick_from.tag = "NextLevel" /\ halted = "running") =>
        \A e \in world_in.alive :
            e \in alive <=> (e = world_in.player \/ OwnedBy(world_in, e, world_in.player))

\* a level advance that kept an item of the player and deleted an item owned
\* by another entity
C1_Witness ==
    /\ tick_from.tag = "NextLevel"
    /\ \E e \in world_in.alive \cap alive :
          e # world_in.player /\ OwnedBy(world_in, e, world_in.player)
    /\ \E e \in world_in.alive \ alive :
          \E o \in world_in.alive \ {world_in.player} : OwnedBy(world_in, e, o)

(***************************************************************************)
(* The scheduler.                                                          *)
(***************************************************************************)
\* C2: a tick that starts in PreRun publishes AwaitingInput, one that starts in
\* PlayerTurn publishes MonsterTurn, one that starts in MonsterTurn publishes
\* AwaitingInput, each having run the system pipeline exactly once; so a
\* PlayerTurn is followed by one MonsterTurn and then by AwaitingInput
C2_PipelineTransitions ==
    /\ tick_from.tag = "PreRun" =>
          (runstate = RS("AwaitingInput") /\ systems_run = 1)
    /\ tick_from.tag = "PlayerTurn" =>
          (runstate = RS("MonsterTurn") /\ systems_run = 1)
    /\ tick_from.tag = "MonsterTurn" =>
          (runstate = RS("AwaitingInput") /\ systems_run = 1)

\* a monster turn has just ended
C2_Witness ==
    tick_from.tag = "MonsterTurn" /\ runstate.tag = "AwaitingInput" /\ systems_run = 1

MenuStates == {"ShowInventory", "ShowDropItem", "ShowRemoveItem", "ShowTargeting"}
IntentKinds ==
    { "WantsToUseItem", "WantsToDropItem", "WantsToRemoveItem",
      "WantsToPickupItem", "WantsToMelee" }

\* the last tick left every intent storage as it found it
IntentsUnchanged == \A k \in IntentKinds : store[k] = world_in.store[k]

\* the player holds the component v of kind k
PlayerIntent(k, v) ==
    /\ world_in.player \in DOMAIN store[k]
    /\ store[k][world_in.player] = v

\* the statement of C5 as claimed: every selection in a menu state records the
\* intent for the selected item on the player and publishes PlayerTurn
C5_AsClaimed ==
    (tick_from.tag \in MenuStates /\ tick_input.result = "Selected") =>
        /\ runstate = RS("PlayerTurn")
        /\ tick_from.tag = "ShowInventory" =>
              PlayerIntent("WantsToUseItem", [item |-> tick_input.item, target |-> NoTarget])
        /\ tick_from.tag = "ShowDropItem" =>
              PlayerIntent("WantsToDropItem", [item |-> tick_input.item])
        /\ tick_from.tag = "ShowRemoveItem" =>
              PlayerIntent("WantsToRemoveItem", [item |-> tick_input.item])
        /\ tick_from.tag = "ShowTargeting" =>
              PlayerIntent("WantsToUseItem",
                           [item |-> tick_from.item, target |-> Some(tick_input.target)])

\* C5 (amended): a selection records the intent for the selected item on the
\* player and publishes PlayerTurn, except that selecting an item with a Ranged
\* component in ShowInventory records no intent and publishes
\* ShowTargeting(range, item)
C5_SelectionRecordsIntent ==
    (tick_from.tag \in MenuStates /\ tick_input.result = "Selected") =>
        IF tick_from.tag = "ShowInventory"
             /\ tick_input.item \in DOMAIN world_in.store["Ranged"]
        THEN /\ runstate = ShowTargeting(world_in.store["Ranged"][tick_input.item],
                                         tick_input.item)
             /\ IntentsUnchanged
        ELSE C5_AsClaimed

\* a ranged item was selected in the inventory
C5_Witness ==
    /\ tick_from.tag = "ShowInventory"
    /\ tick_input.result = "Selected"
    /\ tick_input.item \in DOMAIN world_in.store["Ranged"]
    /\ runstate.tag = "ShowTargeting"

\* C6: in a menu state Cancel publishes AwaitingInput and NoResponse publishes
\* the state the tick started in (ShowTargeting with its range and item); no
\* intent is added to any entity and the system pipeline is not run
C6_CancelAndNoResponse ==
    /\ (tick_from.tag \in MenuStates /\ tick_input.result = "Cancel") =>
          (runstate = RS("AwaitingInput") /\ IntentsUnchanged /\ systems_run = 0)
    /\ (tick_from.tag \in MenuStates /\ tick_input.result = "NoResponse") =>
          (runstate = tick_from /\ IntentsUnchanged /\ systems_run = 0)

\* a targeting menu got no response and was published again
C6_Witness ==
    /\ tick_from.tag = "ShowTargeting"
    /\ tick_input.result = "NoResponse"
    /\ runstate = tick_from

\* did the last tick select NewGame in the main menu
ChoseNewGame ==
    /\ tick_from.tag = "MainMenu"
    /\ tick_input.result = "Selection"
    /\ tick_input.option = "NewGame"

\* C7: selecting NewGame in MainMenu resets the world (no old entity is left,
\* a new player, a map of depth 1) and publishes PreRun, and the tick after it
\* publishes AwaitingInput without asking a collaborator
C7_NewGameSequence ==
    /\ [](ChoseNewGame =>
            /\ runstate = RS("PreRun")
            /\ alive \cap world_in.alive = {}
            /\ player \in alive
            /\ map_depth = 1)
    /\ [][(ChoseNewGame /\ halted = "running") =>
            (runstate' = RS("AwaitingInput") /\ tick_input' = NoInput)]_vars

\* NewGame was selected over a world that had entities
C7_Witness ==
    ChoseNewGame /\ runstate.tag = "PreRun" /\ world_in.alive # {}

\* the RunState values the specification lists
ListedStates ==
    { "PreRun", "AwaitingInput", "PlayerTurn", "MonsterTurn", "NextLevel", "SaveGame",
      "GameOver", "MainMenu", "ShowInventory", "ShowDropItem", "ShowRemoveItem",
      "ShowTargeting" }

\* has a tick happened
Ticked == tick_from.tag # "-"

\* the statement of C8 as claimed: the RunState before the first tick is
\* MainMenu, and every RunState held is one of the listed ones
C8_AsClaimed ==
    /\ ~Ticked => runstate.tag = "MainMenu"
    /\ runstate.tag \in ListedStates

\* C8 (amended): the RunState before the first tick is MapGeneration; the
\* first tick branches on it and publishes MainMenu(NewGame); every RunState
\* held after the first tick is one of the listed ones
C8_InitialMapGeneration ==
    /\ ~Ticked => runstate = RS("MapGeneration")
    /\ tick_from.tag = "MapGeneration" => runstate = MainMenu("NewGame")
    /\ Ticked => runstate.tag \in ListedStates

\* the first tick has run
C8_Witness == tick_from.tag = "MapGeneration" /\ runstate.tag = "MainMenu"

(***************************************************************************)
(* Save and load.                                                          *)
(***************************************************************************)
\* the storage s with its entities, and the entities its components refer to,
\* renamed by f
Renamed(k, s, f) ==
    [e \in { f[x] : x \in DOMAIN s } |->
        ConvertRefs(k, s[CHOOSE x \in DOMAIN s : f[x] = e], f)]

\* is the world now the world w up to the names of the entities: every
\* serializable component storage but the helper's, and the map
SameWorldAs(w) ==
    /\ map_depth = w.map_depth
    /\ Cardinality(alive) = Cardinality(w.alive)
    /\ \E f \in [w.alive -> alive] :
          /\ \A a, b \in w.alive : f[a] = f[b] => a = b
          /\ player = f[w.player]
          /\ \A k \in Kinds \ {"SerializationHelper"} :
                store[k] = Renamed(k, w.store[k], f)

\* C9: save_game followed by load_game into a fresh world restores every
\* entity with every serializable component, the map, and the owner references
C9_RoundTrip ==
    rt_pc = "loaded" => (halted = "running" /\ SameWorldAs(world_in))

\* C10: a tick that starts in SaveGame publishes MainMenu(LoadGame) and leaves
\* the save where does_save_exist and load_game look for it
C10_SaveThenLoadable ==
    (tick_from.tag = "SaveGame" /\ halted = "running") =>
        (runstate = MainMenu("LoadGame") /\ does_save_exist(State))

(***************************************************************************)
(* Loading from the main menu, and the environment.                        *)
(***************************************************************************)
\* did the last tick call `name`
Called(name) == \E i \in DOMAIN calls : calls[i] = name

\* did the last tick select LoadGame in the main menu
ChoseLoadGame ==
    /\ tick_from.tag = "MainMenu"
    /\ tick_input.result = "Selection"
    /\ tick_input.option = "LoadGame"

C12_EnvironmentErrorsNotFatal ==
    /\ tick_from.tag = "SaveGame" => halted = "running"
    /\ ChoseLoadGame => halted = "running"
    /\ (ChoseLoadGame /\ world_in.root_file \in {NoFile, Malformed}) =>
          runstate = MainMenu("LoadGame")

(***************************************************************************)
(* The player resource.                                                    *)
(***************************************************************************)
\* the statement of C13 as claimed: the entity the player resource refers to
\* is alive in every state, and no tick deletes the entity that holds the
\* reference
C13_AsClaimed ==
    /\ [](halted = "running" => player \in alive)
    /\ [][halted' = "running" => player \in alive']_vars

\* did the last tick build the world anew: a game-over reset, a new game or a
\* load
RebuiltWorld == Called("game_over_cleanup") \/ Called("load_game")

\* C13 (amended): at the end of every tick the process survives, the player
\* resource refers to one entity, which is alive and is a Player; a tick that
\* does not rebuild the world leaves the reference on the same entity; a
\* game-over reset, a new game and a load delete the entity that held the
\* reference and move the reference to the new player
C13_PlayerAliveOrReplaced ==
    halted = "running" =>
        /\ player \in alive
        /\ player \in DOMAIN store["Player"]
        /\ Ticked =>
              IF RebuiltWorld
              THEN player \notin world_in.alive /\ world_in.player \notin alive
              ELSE player = world_in.player

\* a game-over reset has deleted the player of a game and made a new one
C13_Witness ==
    /\ tick_from.tag = "GameOver"
    /\ Called("game_over_cleanup")
    /\ world_in.player \in world_in.alive
    /\ world_in.player \notin alive
    /\ player \in alive

(***************************************************************************)
(* The heal of a level advance.                                            *)
(***************************************************************************)
\* the player's CombatStats before and after the last tick
StatsBefore == world_in.store["CombatStats"][world_in.player]
StatsAfter == store["CombatStats"][player]

\* did the last tick advance a level with a player that has CombatStats
Descended ==
    /\ tick_from.tag = "NextLevel"
    /\ world_in.player \in DOMAIN world_in.store["CombatStats"]

\* the statement of C14 as claimed: after goto_next_level the player's hp is
\* at least the hp before and at least half of max_hp (2 * hp >= max_hp), and
\* max_hp is unchanged
C14_AsClaimed ==
    Descended =>
        /\ StatsAfter.hp >= StatsBefore.hp
        /\ 2 * StatsAfter.hp >= StatsAfter.max_hp
        /\ StatsAfter.max_hp = StatsBefore.max_hp

\* C14 (amended): after goto_next_level the player's hp is at least the hp
\* before and at least max_hp / 2 as i32 division computes it, so that
\* 2 * hp >= max_hp - 1 (one short of half when max_hp is odd); a player who
\* was healed is within one of half max_hp; max_hp is unchanged
C14_HealToTruncatedHalf ==
    Descended =>
        /\ StatsAfter.hp >= StatsBefore.hp
        /\ 2 * StatsAfter.hp >= StatsAfter.max_hp - 1
        /\ StatsAfter.hp # StatsBefore.hp =>
              (2 * StatsAfter.hp - StatsAfter.max_hp) \in {-1, 0, 1}
        /\ StatsAfter.max_hp = StatsBefore.max_hp

\* a player with odd max_hp was healed to one short of half
C14_Witness ==
    /\ Descended
    /\ StatsBefore.max_hp = 3
    /\ StatsBefore.hp = 0
    /\ StatsAfter.hp = 1

(***************************************************************************)
(* Map regeneration: level advance and game-over reset.                    *)
(***************************************************************************)
\* did the last tick generate a new map
Regenerated == Called("goto_next_level") \/ Called("game_over_cleanup")

\* C15: at the end of a tick that regenerated the map (level advance and
\* game-over reset alike) the player's Position component and the
\* player-position resource both equal the new map's start coordinate, and the
\* player's Viewshed is dirty
C15_PlayerAtNewStart ==
    Regenerated =>
        /\ player \in DOMAIN store["Position"]
        /\ store["Position"][player] = map_start
        /\ player_pos = map_start
        /\ player \in DOMAIN store["Viewshed"]
        /\ store["Viewshed"][player].is_dirty

\* a level advance moved a player, whose viewshed was clean, to another start
C15_Witness ==
    /\ Called("goto_next_level")
    /\ world_in.player_pos # map_start
    /\ ~world_in.store["Viewshed"][world_in.player].is_dirty
    /\ store["Position"][player] = map_start

\* the statement of C16 as claimed: the depth of the map never decreases from
\* one tick to the next, and a level advance installs the map for the
\* previous depth + 1
C16_AsClaimed ==
    /\ [][map_depth' >= map_depth]_vars
    /\ [](Called("goto_next_level") => map_depth = world_in.map_depth + 1)

\* the depth of the map stored in a save document
SavedDepth(doc) ==
    LET i == CHOOSE j \in DOMAIN LoadKinds : LoadKinds[j] = "SerializationHelper"
        m == Last(DOMAIN doc.segs[i])
    IN  doc.segs[i][m].val.map.depth

\* C16 (amended): a level advance installs the map for exactly the previous
\* depth + 1; a game-over reset or new game installs a map of depth 1 and a
\* load installs the saved map with its depth, either of which may lower the
\* depth; every other tick leaves the depth as it was
C16_DepthSteps ==
    (Ticked /\ halted = "running") =>
        CASE Called("game_over_cleanup") -> map_depth = 1
          [] Called("load_game") -> map_depth = SavedDepth(world_in.root_file)
          [] Called("goto_next_level") -> map_depth = world_in.map_depth + 1
          [] OTHER -> map_depth = world_in.map_depth

\* a level advance has taken the map from depth 1 to depth 2
C16_Witness ==
    /\ Called("goto_next_level")
    /\ world_in.map_depth = 1
    /\ map_depth = 2

\* C17: game_over_cleanup deletes every entity that existed before it (the
\* old player and its items included), leaves no earlier entry in the message
\* log, spawns a fresh player that becomes the player resource, and installs a
\* map of depth 1
C17_GameOverReset ==
    Called("game_over_cleanup") =>
        /\ alive \cap world_in.alive = {}
        /\ \A k \in Kinds : (DOMAIN store[k]) \cap world_in.alive = {}
        /\ log = <<"Welcome to my Roguelike!">>
        /\ player \in alive \ world_in.alive
        /\ player \in DOMAIN store["Player"]
        /\ map_depth = 1

\* a reset over a world that had entities and a log with a descent in it
C17_Witness ==
    /\ Called("game_over_cleanup")
    /\ world_in.player \in world_in.alive
    /\ Len(world_in.log) >= 2
    /\ world_in.map_depth = 2
    /\ Len(log) = 1

(***************************************************************************)
(* The system pipeline and the turn cycle.                                 *)
(***************************************************************************)
\* is seq the sequence sub followed by something
StartsWith(seq, sub) ==
    /\ Len(seq) >= Len(sub)
    /\ \A i \in DOMAIN sub : seq[i] = sub[i]

\* the statement of C18 as claimed: an invocation of the pipeline runs, within
\* the call, visibility, AI, spatial indexing, melee, damage, item pickup, use,
\* drop and remove, and as its last step the cull of the dead
C18_AsClaimed ==
    Called("run_systems") =>
        \E extra \in {<<>>, <<"ParticleSpawnSystem">>} :
            StartsWith(calls,
                       << "run_systems", "VisibilitySystem", "MonsterAI",
                          "MapIndexingSystem", "MeleeCombatSystem", "DamageSystem",
                          "ItemCollectionSystem", "ItemUseSystem", "ItemDropSystem",
                          "ItemRemoveSystem" >> \o extra
                         \o << "delete_the_dead", "maintain" >>)

\* C18 (amended): an invocation of run_systems runs to completion, in this
\* order, visibility, AI, spatial indexing, melee, damage, item pickup, use,
\* drop and remove (and the particle spawner); the cull of the dead is not a
\* step of it: tick calls it once, after publishing the next RunState, as the
\* last call of every tick, so that in a tick that runs the pipeline it follows
\* the damage application
C18_PipelineOrderThenCull ==
    /\ Called("run_systems") =>
          calls = << "run_systems", "VisibilitySystem", "MonsterAI",
                     "MapIndexingSystem", "MeleeCombatSystem", "DamageSystem",
                     "ItemCollectionSystem", "ItemUseSystem", "ItemDropSystem",
                     "ItemRemoveSystem", "ParticleSpawnSystem", "maintain",
                     "delete_the_dead" >>
    /\ (Ticked /\ halted = "running") =>
          /\ calls # <<>>
          /\ calls[Len(calls)] = "delete_the_dead"
          /\ \A i \in DOMAIN calls : calls[i] = "delete_the_dead" => i = Len(calls)

\* a tick ran the pipeline and the cull after it deleted a monster
C18_Witness ==
    /\ Called("run_systems")
    /\ \E m \in world_in.alive \ alive : m \in DOMAIN world_in.store["Monster"]

\* the entities the occupant index lists
Occupants == { o[2] : o \in tile_content }

\* C19: when the player turn of a cycle started with a melee intent of the
\* player that was lethal to a monster next to the player, then at the end of
\* the cycle (PlayerTurn, MonsterTurn, then AwaitingInput published) the
\* monster is deleted and is not in the occupant index, and the index lists no
\* deleted entity
C19_SlainMonsterGone ==
    (tick_from.tag = "MonsterTurn" /\ doomed # {}) =>
        /\ runstate = RS("AwaitingInput")
        /\ doomed \cap alive = {}
        /\ doomed \cap Occupants = {}
        /\ Occupants \subseteq alive

\* a cycle that started with a lethal melee intent has ended, with the
\* player still listed in the index
C19_Witness ==
    /\ tick_from.tag = "MonsterTurn"
    /\ doomed # {}
    /\ player \in Occupants

\* C20: a tick runs the system pipeline if and only if it starts in PreRun,
\* PlayerTurn or MonsterTurn; a tick that starts in AwaitingInput, a menu
\* state, MainMenu, GameOver, SaveGame or NextLevel never runs it
C20_PipelineOnlyInTurnStates ==
    Ticked =>
        /\ systems_run > 0 <=> tick_from.tag \in {"PreRun", "PlayerTurn", "MonsterTurn"}
        /\ Called("run_systems") <=> systems_run > 0

\* a menu was browsed and no turn was taken
C20_Witness ==
    /\ tick_from.tag \in MenuStates
    /\ tick_input.result = "NoResponse"
    /\ systems_run = 0
    /\ ~Called("run_systems")

(***************************************************************************)
(* Atomicity of level transitions and resets.                              *)
(***************************************************************************)
\* is the player of the world now standing on the start of the map
PlayerAtStart ==
    /\ player \in alive
    /\ player_pos = map_start
    /\ player \in DOMAIN store["Position"]
    /\ store["Position"][player] = map_start

\* C21: a tick writes the RunState resource exactly once, and in a tick that
\* advances a level or resets the game the write comes after the transition
\* was called; so the state a level advance leaves has PreRun together with
\* the rebuilt world (only the retain set kept, the map of the next depth with
\* no stale occupants, the player on its start), and the state a reset leaves
\* has MainMenu(NewGame) or PreRun together with the new world of depth 1
C21_AtomicTransitions ==
    (Ticked /\ halted = "running") =>
        /\ Len(runstate_writes) = 1
        /\ \A i \in DOMAIN calls :
              calls[i] \in {"goto_next_level", "game_over_cleanup"} =>
                  i <= runstate_writes[1]
        /\ tick_from.tag = "NextLevel" =>
              /\ runstate = RS("PreRun")
              /\ Called("goto_next_level")
              /\ map_depth = world_in.map_depth + 1
              /\ \A e \in world_in.alive \cap alive :
                    e = player \/ OwnedBy(world_in, e, player)
              /\ Occupants \cap (world_in.alive \ alive) = {}
              /\ PlayerAtStart
        /\ Called("game_over_cleanup") =>
              /\ runstate = IF tick_from.tag = "GameOver"
                            THEN MainMenu("NewGame") ELSE RS("PreRun")
              /\ map_depth = 1
              /\ alive \cap world_in.alive = {}
              /\ Occupants = {}
              /\ PlayerAtStart
        /\ (runstate.tag = "PreRun" /\ tick_from.tag \in {"NextLevel", "MainMenu"}) =>
              Regenerated

\* a level advance that deleted an entity has published PreRun, after the
\* transition
C21_Witness ==
    /\ tick_from.tag = "NextLevel"
    /\ runstate = RS("PreRun")
    /\ world_in.alive \ alive # {}
    /\ runstate_writes = <<1>>

UnreachedFloor(t, start) ==
    { i \in TileIdx : t[i] = "Floor" /\ DijkstraMap(t, start)[i] = F32_MAX }

\* C23: cull_and_set_exit turns every Floor tile the distance field left
\* unreached into Wall, turns exactly one tile into DownStairs, and leaves
\* every other tile with the kind it had; the tile array keeps its length
C23_OnlyPruneAndStairs ==
    cull_pc = "culled" =>
        /\ DOMAIN tiles = DOMAIN tiles_in
        /\ Cardinality(Stairs(tiles)) = 1
        /\ \A i \in UnreachedFloor(tiles_in, start_idx) : tiles[i] = "Wall"
        /\ \A i \in TileIdx \ (UnreachedFloor(tiles_in, start_idx) \cup Stairs(tiles)) :
              tiles[i] = tiles_in[i]

(***************************************************************************)
(* A load consumes the save.                                               *)
(***************************************************************************)
\* C24: when LoadGame is selected and a save exists, the tick loads the world,
\* publishes AwaitingInput and deletes the save, so that does_save_exist is
\* false afterwards; a LoadGame selection when no save exists stays on
\* MainMenu(LoadGame); delete_save changes nothing when no save exists
C24_LoadConsumesSave ==
    /\ (ChoseLoadGame /\ world_in.root_file # NoFile) =>
          /\ halted = "running"
          /\ Called("load_game")
          /\ runstate = RS("AwaitingInput")
          /\ Called("delete_save")
          /\ ~does_save_exist(State)
    /\ (ChoseLoadGame /\ world_in.root_file = NoFile) =>
          runstate = MainMenu("LoadGame")
    /\ ~does_save_exist(State) => delete_save(State).root_file = root_file

====
